---- MODULE Spec2Model ----
(***************************************************************************)
(* Merkle proof generation of "Project 1 merkle tree/prover.py".           *)
(*                                                                         *)
(* A caller owns a list of leaves and calls gen_merkle_proof(leaves, pos)  *)
(* any number of times.  One call is modelled statement by statement:      *)
(* Enter (lines 49-50), Prepare (lines 53-63), one LoopStep per iteration  *)
(* of the for loop (lines 64-75), Return (line 80), and Finish, which      *)
(* hands the outcome back to the caller.                                   *)
(*                                                                         *)
(* Byte strings are tagged tuples.  <<"raw", s>> is the byte string whose  *)
(* bytes are the tuple s.  A SHA-256 digest is the tuple of what was fed   *)
(* to the hash object, <<"sha256", prefix, part, ...>>, so two digests are *)
(* equal exactly when their inputs are: the hash is collision free.        *)
(***************************************************************************)
EXTENDS Integers, Sequences, FiniteSets, TLC

VARIABLES
    leaves,     \* the caller's list of leaves (a Python list, mutable)
    pos,        \* argument pos of the current call
    pc,         \* "idle", "entered", "loop", "returned", "raised"
    height,     \* local height (line 49)
    state,      \* local state (lines 53-57)
    path,       \* local path (lines 60, 73)
    level_pos,  \* local level_pos (lines 62, 75)
    temp_list,  \* local temp_list (lines 63, 74)
    level,      \* loop variable of line 64
    result,     \* the value returned at line 80
    error,      \* the exception that ended the call, "" when none
    nhash,      \* number of hash_leaf calls made by the current call
    leaves0,    \* the caller's list as it was before the first call
    first       \* outcome of the first call that finished

vars == <<leaves, pos, pc, height, state, path, level_pos, temp_list, level,
          result, error, nhash, leaves0, first>>

(***************************************************************************)
(* Bounds of the model.                                                    *)
(***************************************************************************)
MaxLeaves == 5      \* longest list of leaves the caller passes
PosSlack == 1       \* how far beyond the padded level pos may lie
FarPos == 5         \* one more position, far outside a short list
HighBits == 2       \* bits of a position at or above the height that are flipped

\* MAXHEIGHT is 20 in prover.py (line 10).  The model runs with a smaller
\* value, so that the shortest list that is too long, of 2^(MAXHEIGHT-1) + 1
\* leaves, is a list the model can hold.  The assertion of line 50 reads it
\* unchanged.
MAXHEIGHT == 4

DIGEST_SIZE == 32   \* length in bytes of a SHA-256 digest

Raw(s) == <<"raw", s>>

\* The leaves a caller may pass: b"a", and b"\x00" (the bytes of a pad entry).
LeafValues == {Raw(<<97>>), Raw(<<0>>)}

RECURSIVE Pow2(_)
Pow2(k) == IF k <= 0 THEN 1 ELSE 2 * Pow2(k - 1)

\* Number of bytes of a byte string.
ByteLen(b) == IF b[1] = "sha256" THEN DIGEST_SIZE ELSE Len(b[2])

hash_leaf(leaf) == <<"sha256", "leaf:", leaf>>

\* Variant: the two children are hashed as an unordered pair.
hash_internal_node_Unordered(left, right) == <<"sha256", "node:", {left, right}>>

hash_internal_node(left, right) == <<"sha256", "node:", left, right>>

MerkleProof(leaf, p, pth) == [leaf |-> leaf, pos |-> p, path |-> pth]

\* math.ceil(math.log(n, 2)) for n >= 1.  CPython's floating-point quotient
\* log(n)/log(2) has the exact ceiling, the least h with 2^h >= n, for every
\* n <= 2^21; the first power of two where it is one too large is 2^29, whose
\* height fails the assertion of line 50 either way.
RECURSIVE CeilLog2From(_, _)
CeilLog2From(n, h) == IF Pow2(h) >= n THEN h ELSE CeilLog2From(n, h + 1)

\* Variant: the bit length of n, one too many at every power of two.
height_of_BitLength(n) == CeilLog2From(n + 1, 0)

height_of(n) == CeilLog2From(n, 0)

\* Variant: a logarithm that accepts 0.
math_log_never_raises(n) == FALSE

\* line 49: math.log(n, 2) raises ValueError("math domain error") for n <= 0
math_log_raises(n) == n <= 0

\* Variant: the assertion lets height = MAXHEIGHT pass.
AssertHeight_Inclusive(h) == h <= MAXHEIGHT

\* line 50: the condition of the assert statement
AssertHeight(h) == h < MAXHEIGHT

\* Variant: the pad entry is a digest-sized string of zero bytes.
PadEntry_ZeroDigest == Raw([i \in 1..DIGEST_SIZE |-> 0])

\* line 57: b"\x00", a string of one zero byte
PadEntry == Raw(<<0>>)

\* line 57: [b"\x00"] * padlen
Padding(padlen) == [i \in 1..padlen |-> PadEntry]

\* list(map(hash_leaf, leaves))
HashLeaves(lv) == [i \in 1..Len(lv) |-> hash_leaf(lv[i])]

\* Variant: the hashed leaves are not padded.
PaddedState_NoPad(lv, h) == HashLeaves(lv)

\* lines 53-57: the hashed leaves, padded
PaddedState(lv, h) == HashLeaves(lv) \o Padding(Pow2(h) - Len(lv))

\* Variant: the pad entries are appended to the caller's list.
CallerLeaves_PaddedInPlace(lv, h) == lv \o Padding(Pow2(h) - Len(lv))

\* What lines 53-57 leave in the caller's list: list(map(...)) builds a new
\* list, and += extends that new list in place.
CallerLeavesAfterPad(lv, h) == lv

\* Python indexing lst[i]: negative indices count from the end.
InRange(lst, i) == -Len(lst) <= i /\ i < Len(lst)

PyIndex(lst, i) == IF i >= 0 THEN lst[i + 1] ELSE lst[Len(lst) + i + 1]

\* Variant: the sibling is always the next entry.
SiblingPos_Next(lp) == lp + 1

\* lines 67-70
SiblingPos(lp) == IF lp % 2 = 0 THEN lp + 1 ELSE lp - 1

\* line 74: map over temp_list[::2] and temp_list[1::2] stops with the shorter
FoldLevel(lst) ==
    [i \in 1..(Len(lst) \div 2) |-> hash_internal_node(lst[2 * i - 1], lst[2 * i])]

\* Variant: the position is not halved.
HalvePos_Keep(lp) == lp

\* line 75
HalvePos(lp) == lp \div 2

NoCall == [kind |-> "none", pos |-> 0, error |-> "", path |-> <<>>]

Outcome == [kind |-> pc, pos |-> pos, error |-> error, path |-> result]

\* The lists the caller may own: every list of at most MaxLeaves leaves, the
\* longest list that passes the assertion of line 50, of 2^(MAXHEIGHT-1) equal
\* leaves, and the shortest that does not, of one leaf more.
EqualLeaves(n) == [i \in 1..n |-> Raw(<<97>>)]

LeafLists ==
    UNION {[1..n -> LeafValues] : n \in 0..MaxLeaves}
    \cup {EqualLeaves(Pow2(MAXHEIGHT - 1)), EqualLeaves(Pow2(MAXHEIGHT - 1) + 1)}

\* The positions the caller may pass with list lv: every index of the padded
\* level, every negative index of it, PosSlack more on either side, and FarPos.
Positions(lv) ==
    {FarPos} \cup
    IF Len(lv) = 0 THEN -PosSlack..PosSlack
    ELSE (-Pow2(CeilLog2From(Len(lv), 0)) - PosSlack)..(Pow2(CeilLog2From(Len(lv), 0)) + PosSlack)

Init ==
    /\ leaves \in LeafLists
    /\ leaves0 = leaves
    /\ pos = 0
    /\ pc = "idle"
    /\ height = 0
    /\ state = <<>>
    /\ path = <<>>
    /\ level_pos = 0
    /\ temp_list = <<>>
    /\ level = 0
    /\ result = <<>>
    /\ error = ""
    /\ nhash = 0
    /\ first = NoCall

\* lines 45-50: the call, the height and the assertion
Enter(p) ==
    /\ pc = "idle"
    /\ pos' = p
    /\ IF math_log_raises(Len(leaves))
       THEN /\ pc' = "raised"
            /\ error' = "ValueError"
            /\ UNCHANGED height
       ELSE /\ height' = height_of(Len(leaves))
            /\ IF AssertHeight(height_of(Len(leaves)))
               THEN pc' = "entered" /\ UNCHANGED error
               ELSE \* AssertionError("Too many leaves.")
                    pc' = "raised" /\ error' = "AssertionError"
    /\ UNCHANGED <<leaves, state, path, level_pos, temp_list, level, result,
                   nhash, leaves0, first>>

\* lines 53-63
Prepare ==
    /\ pc = "entered"
    /\ state' = PaddedState(leaves, height)
    /\ nhash' = Len(leaves)
    /\ leaves' = CallerLeavesAfterPad(leaves, height)
    /\ path' = <<>>
    /\ level_pos' = pos
    /\ temp_list' = PaddedState(leaves, height)
    /\ level' = 0
    /\ pc' = "loop"
    /\ UNCHANGED <<pos, height, result, error, leaves0, first>>

\* lines 64-75: one iteration of the loop
LoopStep ==
    /\ pc = "loop"
    /\ level < height
    /\ IF InRange(temp_list, SiblingPos(level_pos))
       THEN /\ path' = Append(path, PyIndex(temp_list, SiblingPos(level_pos)))
            /\ temp_list' = FoldLevel(temp_list)
            /\ level_pos' = HalvePos(level_pos)
            /\ level' = level + 1
            /\ UNCHANGED <<pc, error>>
       ELSE \* temp_list[sibling_pos] raises IndexError
            /\ pc' = "raised"
            /\ error' = "IndexError"
            /\ UNCHANGED <<path, temp_list, level_pos, level>>
    /\ UNCHANGED <<leaves, pos, height, state, result, nhash, leaves0, first>>

\* line 80, reached when range(height) is exhausted
Return ==
    /\ pc = "loop"
    /\ level = height
    /\ result' = path
    /\ pc' = "returned"
    /\ UNCHANGED <<leaves, pos, height, state, path, level_pos, temp_list,
                   level, error, nhash, leaves0, first>>

\* The caller takes the outcome; the locals of the call are gone.
Finish ==
    /\ pc \in {"returned", "raised"}
    /\ first' = IF first = NoCall THEN Outcome ELSE first
    /\ pc' = "idle"
    /\ pos' = 0
    /\ height' = 0
    /\ state' = <<>>
    /\ path' = <<>>
    /\ level_pos' = 0
    /\ temp_list' = <<>>
    /\ level' = 0
    /\ result' = <<>>
    /\ error' = ""
    /\ nhash' = 0
    /\ UNCHANGED <<leaves, leaves0>>

Next ==
    \/ \E p \in Positions(leaves) : Enter(p)
    \/ Prepare
    \/ LoopStep
    \/ Return
    \/ Finish

Spec == Init /\ [][Next]_vars

(***************************************************************************)
(* The verifier and the reference tree, as the specification states them.  *)
(***************************************************************************)

\* The running digest is combined with each path entry, bottom to top: on the
\* left when the halved position is even, on the right when it is odd.
RECURSIVE VerifyFold(_, _, _)
VerifyFold(d, p, pth) ==
    IF pth = <<>> THEN d
    ELSE VerifyFold(IF p % 2 = 0 THEN hash_internal_node(d, Head(pth))
                                 ELSE hash_internal_node(Head(pth), d),
                    p \div 2, Tail(pth))

verify(root, proof) == VerifyFold(hash_leaf(proof.leaf), proof.pos, proof.path) = root

\* The digest of the complete binary tree over lvl (of 2^k entries), top down.
RECURSIVE TreeRoot(_)
TreeRoot(lvl) ==
    IF Len(lvl) = 1 THEN lvl[1]
    ELSE hash_internal_node(TreeRoot(SubSeq(lvl, 1, Len(lvl) \div 2)),
                            TreeRoot(SubSeq(lvl, Len(lvl) \div 2 + 1, Len(lvl))))

(***************************************************************************)
(* Vocabulary of the properties.                                           *)
(***************************************************************************)
NLeaves == Len(leaves0)

ValidPos == 0 <= pos /\ pos < NLeaves

\* h is ceil(log2(n)): the least h with 2^h >= n
IsCeilLog2(h, n) == Pow2(h) >= n /\ (h = 0 \/ Pow2(h - 1) < n)

\* hashed leaves followed by pad entries up to the next power of two
Level0 == PaddedState(leaves0, CHOOSE h \in 0..NLeaves : IsCeilLog2(h, NLeaves))

\* digest number idx (from 0) of level L of the tree over Level0
NodeAt(L, idx) == TreeRoot(SubSeq(Level0, idx * Pow2(L) + 1, (idx + 1) * Pow2(L)))

Root == TreeRoot(Level0)

XorOne(i) == IF i % 2 = 0 THEN i + 1 ELSE i - 1

\* p with bit k flipped, p >= 0
FlipBit(p, k) == IF (p \div Pow2(k)) % 2 = 0 THEN p + Pow2(k) ELSE p - Pow2(k)

\* the proof object the driver builds from a returned path (line 103)
Proof == MerkleProof(leaves0[pos + 1], pos, result)

Accepted == pc = "returned" /\ NLeaves >= 1 /\ ValidPos

Entries(sq) == {sq[i] : i \in 1..Len(sq)}

\* digests a tamperer may put in place of a path entry
TamperDigests ==
    LET base == {PadEntry} \cup {hash_leaf(l) : l \in LeafValues} \cup Entries(result)
    IN  base \cup {Root} \cup {hash_internal_node(a, b) : a \in base, b \in base}

(***************************************************************************)
(* Properties.                                                             *)
(***************************************************************************)

\* C1: round trip.  For every non-empty list of leaves and every position
\* 0 <= pos < len(leaves), the returned path verifies: starting from
\* hash_leaf(leaves[pos]) and combining with each path entry bottom to top
\* gives the root of the tree over the hashed and padded leaves.
C1_RoundTrip == Accepted => verify(Root, Proof)

C1_Witness == Accepted /\ NLeaves = 5 /\ pos = 4 /\ verify(Root, Proof)

\* C2: for every non-empty list of n leaves and every valid position, the
\* returned path has exactly ceil(log2(n)) entries: the least h with
\* 2^h >= n, so 0 entries for n = 1 and k entries for n = 2^k.
C2_PathLength == Accepted => IsCeilLog2(Len(result), NLeaves)

C2_Witness == Accepted /\ NLeaves = 4 /\ Len(result) = 2

\* C3: for every non-empty list (short enough to pass the height check) and
\* every position outside [0, n), the call fails with an index error before
\* any leaf is hashed, and never returns a path.
C3_OutOfRangeRejected ==
    (/\ NLeaves >= 1
     /\ NLeaves <= Pow2(MAXHEIGHT - 1)
     /\ ~ValidPos
     /\ pc \in {"loop", "returned", "raised"})
    => (pc = "raised" /\ error = "IndexError" /\ nhash = 0)

\* C4: a call with an empty list of leaves fails before any leaf is hashed,
\* with the error of line 49, and never returns a path.
C4_EmptyInputFails ==
    (NLeaves = 0 /\ pc # "idle")
    => (pc = "raised" /\ error = "ValueError" /\ nhash = 0 /\ state = <<>>)

C4_Witness == NLeaves = 0 /\ pc = "raised" /\ error = "ValueError" /\ pos = 0

\* C5: a call on a non-empty list fails with the "Too many leaves" assertion
\* exactly when ceil(log2(len(leaves))) >= MAXHEIGHT, that is when
\* len(leaves) > 2^(MAXHEIGHT-1); it fails before any leaf is hashed; and a
\* call with a smaller list and a valid position raises nothing.
C5_CapacityExceeded ==
    (NLeaves >= 1 /\ pc # "idle")
    => /\ (pc = "raised" /\ error = "AssertionError")
            <=> (NLeaves > Pow2(MAXHEIGHT - 1))
       /\ NLeaves > Pow2(MAXHEIGHT - 1) => nhash = 0 /\ state = <<>>
       /\ (NLeaves <= Pow2(MAXHEIGHT - 1) /\ ValidPos) => pc # "raised"

C5_Witness ==
    /\ NLeaves = Pow2(MAXHEIGHT - 1) + 1
    /\ pc = "raised"
    /\ error = "AssertionError"
    /\ nhash = 0

\* C7: the call only reads its input.  The caller's list never changes, and
\* a call made after any number of other calls ends as the first call for
\* the same position ended, which was made alone on the original leaves.
C7_ReadOnlyInput ==
    /\ leaves = leaves0
    /\ (pc \in {"returned", "raised"} /\ first.kind # "none" /\ first.pos = pos)
        => Outcome = first

C7_Witness ==
    /\ pc = "returned"
    /\ NLeaves = 3
    /\ first.kind = "returned"
    /\ first.pos = pos
    /\ pos = 2
    /\ Outcome = first
    /\ leaves = leaves0

\* C9: for every valid input and every level L below the height, entry L of
\* the path is digest ((pos div 2^L) xor 1) of level L of the tree; the last
\* entry is a child of the root, and the root is no entry of the path.
C9_PathContent ==
    (pc \in {"loop", "returned"} /\ NLeaves >= 1 /\ ValidPos)
    => /\ \A L \in 0..(Len(path) - 1) :
            path[L + 1] = NodeAt(L, XorOne(pos \div Pow2(L)))
       /\ Root \notin Entries(path)
       /\ (pc = "returned" /\ Len(path) > 0)
            => path[Len(path)] \in {Root[3], Root[4]}

C9_Witness ==
    /\ Accepted
    /\ NLeaves = 5
    /\ pos = 2
    /\ Len(result) = 3
    /\ result[1] = hash_leaf(leaves0[4])
    /\ result[3] = NodeAt(2, 1)

\* C10: at the start of iteration L the working level holds 2^(height-L)
\* digests, so a level that is folded has even length and the fold halves
\* it; when the loop ends one digest is left; for a valid position,
\* level_pos = pos div 2^L and its sibling index lie inside the level.
C10_LoopInvariant ==
    pc = "loop"
    => /\ IsCeilLog2(height, NLeaves)
       /\ Len(temp_list) = Pow2(height - level)
       /\ level <= height
       /\ level < height => Len(temp_list) % 2 = 0
       /\ level = height => Len(temp_list) = 1
       /\ ValidPos =>
            /\ level_pos = pos \div Pow2(level)
            /\ 0 <= level_pos /\ level_pos < Len(temp_list)
            /\ level < height =>
                 /\ 0 <= SiblingPos(level_pos)
                 /\ SiblingPos(level_pos) < Len(temp_list)

C10_Witness ==
    /\ pc = "loop"
    /\ NLeaves = 5
    /\ pos = 4
    /\ level = 2
    /\ Len(temp_list) = 2
    /\ level_pos = 1

\* The proof with one field replaced.
WithLeaf(l) == MerkleProof(l, pos, result)

WithEntry(i, d) == MerkleProof(leaves0[pos + 1], pos, [result EXCEPT ![i] = d])

WithPos(p) == MerkleProof(leaves0[pos + 1], p, result)

TamperedLeafOrPathRejected ==
    /\ \A l \in LeafValues \ {leaves0[pos + 1]} : ~verify(Root, WithLeaf(l))
    /\ \A i \in 1..Len(result) :
         \A d \in TamperDigests \ {result[i]} : ~verify(Root, WithEntry(i, d))

\* C6 as stated: for every proof that verifies, another leaf, another digest
\* in any one path entry, or the position with any single bit flipped, bits
\* at or above the height included, makes verify return false.
C6_TamperAnyBit ==
    Accepted
    => /\ TamperedLeafOrPathRejected
       /\ \A k \in 0..(Len(result) + HighBits - 1) :
            ~verify(Root, WithPos(FlipBit(pos, k)))

\* C6, amended: for every proof that verifies, another leaf, or another
\* digest in any one path entry, makes verify return false; so does the
\* position with bit k flipped when k is below the height and the two
\* children at level k differ (path entry k is not the running digest).
C6_TamperLowBits ==
    Accepted
    => /\ verify(Root, Proof)
       /\ TamperedLeafOrPathRejected
       /\ \A k \in 0..(Len(result) - 1) :
            result[k + 1] # NodeAt(k, pos \div Pow2(k))
            => ~verify(Root, WithPos(FlipBit(pos, k)))

C6_Witness ==
    /\ Accepted
    /\ NLeaves = 5
    /\ pos = 3
    /\ verify(Root, Proof)
    /\ ~verify(Root, WithPos(FlipBit(pos, 2)))
    /\ ~verify(Root, WithLeaf(Raw(<<0>>)))
    /\ ~verify(Root, WithEntry(3, PadEntry))

====
